---- MODULE Spec2Model ----
(***************************************************************************)
(* Radio control link of a remote-controlled car.                          *)
(*   receiver    : src/RC car receiver on Pro Mini/src/main.cpp            *)
(*   transmitter : src/unnamed/part_000                                    *)
(* Each node runs one polling loop; one action of the model is one pass of *)
(* that loop (one call of the mode handler the loop dispatches to).        *)
(* Not modelled: the OLED drawing and the serial dumps, the receiver's     *)
(* light and horn pins and receivedLED (HIGH only inside receiveData).     *)
(***************************************************************************)
EXTENDS Integers, Sequences, FiniteSets, TLC

VARIABLES
    \* ---- receiver ----
    rxData,          \* active packet (dataPackage rxData)
    rawData,         \* packet as read from the radio (dataPackage rawData)
    lastReceive,     \* unsigned long lastReceive
    motorcontroller, \* last command written to Servo motorcontroller
    servo,           \* last command written to Servo servo
    interferenceLED, \* level of the interferenceLED pin
    now,             \* receiver clock, millis()
    pass,            \* the handler loop() ran last ("boot" before the first pass)
    poll,            \* what receiveData did in that pass: "none", "accepted", "rejected"
    cue,             \* TRUE iff that pass played the two-tone reconnection cue
    lastValid,       \* value of millis() stamped by the last pass whose packet was accepted
    \* ---- transmitter ----
    state,           \* byte state, the mode loop() dispatches on
    screen,          \* the function whose loop is running: "startup", "menu", "easy",
                     \* "pro", "edit" (drawEditProSettings), "debug"
    y,               \* drawStartupScreen: position of the animation
    txData,          \* dataPackage txData
    previousSend,    \* unsigned long previousSend
    txnow,           \* transmitter clock, millis()
    menuOffset,      \* byte menuOffset
    lastButtonState, \* bool lastButtonState[], by button
    joystickHomed,   \* bool joystickHomed[], by axis
    EEPROM,          \* the two settings bytes, by address
    valueHighlighted,\* drawEditProSettings: bool valueHighlighted
    page,            \* drawEditProSettings: bool page
    buffer,          \* drawEditProSettings: byte buffer
    scrollCooldown,  \* drawEditProSettings: unsigned long scrollCooldown
    sent,            \* packets handed to radio.write in the last loop iteration
    committed,       \* by page, the value last saved in the settings editor (-1: none)
    restarts,        \* number of power cycles of the transmitter so far
    joyLog,          \* the calls of readJoystick made one by one: axis, sample, value
    edgeLog          \* the calls of risingEdge made one by one: button, level, edge

rxvars == <<rxData, rawData, lastReceive, motorcontroller, servo, interferenceLED,
            now, pass, poll, cue, lastValid>>

txvars == <<state, screen, y, txData, previousSend, txnow, menuOffset, lastButtonState,
            joystickHomed, EEPROM, valueHighlighted, page, buffer, scrollCooldown, sent,
            committed, restarts, joyLog, edgeLog>>

vars == <<rxvars, txvars>>

(***************************************************************************)
(* Constants of the program                                                *)
(***************************************************************************)
idle == 0
easy == 1
pro == 2
debug == 3
notConnected == 4

LOW == 0
HIGH == 1

LinkTimeout == 3000     \* isConnected: millis() - lastReceive > 3000
CueDelay == 500 + 1000  \* receiveData: delay(500), delay(1000) after the two tones
upperBoundary == 180    \* updatePwmDevices
middlepoint == upperBoundary \div 2

(***************************************************************************)
(* Bounds of the model                                                     *)
(***************************************************************************)
MaxTime == 6002         \* the clock stops advancing between passes beyond this value
TxMaxTime == 2000       \* the same for the transmitter's clock
MaxCalls == 5           \* calls of readJoystick, of risingEdge, made one by one
MaxRestarts == 1        \* power cycles of the transmitter
TimeSteps == {0, 1500, 3001}   \* time between the starts of two passes

(***************************************************************************)
(* dataPackage                                                             *)
(***************************************************************************)
AnalogFields == {"rightX", "leftX", "rightY", "leftY"}
SensFields == {"throttleSensitifity", "steerSensitifity"}
BoolFields == {"rightJoystickButton", "leftJoystickButton", "ackButton", "backButton",
               "auxButton1", "auxButton2", "brake", "honk", "headLight", "tailLight"}
Fields == AnalogFields \cup {"mode"} \cup SensFields \cup BoolFields

\* The receiver's default-initialised dataPackage (mode = 4, not connected).
dataPackage ==
    [rightX |-> -1, leftX |-> -1, rightY |-> -1, leftY |-> -1,
     mode |-> notConnected, throttleSensitifity |-> -1, steerSensitifity |-> -1,
     rightJoystickButton |-> 0, leftJoystickButton |-> 0, ackButton |-> 0,
     backButton |-> 0, auxButton1 |-> 0, auxButton2 |-> 0,
     brake |-> 0, honk |-> 0, headLight |-> 0, tailLight |-> 0]

(***************************************************************************)
(* Packets the radio can deliver                                           *)
(***************************************************************************)
\* A packet as the transmitter's Easy screen sends it with the sticks centred.
Centred ==
    [dataPackage EXCEPT !.rightX = 512, !.leftX = 512, !.rightY = 512, !.leftY = 512,
                        !.mode = easy, !.throttleSensitifity = 40, !.steerSensitifity = 50]
\* Both sticks deflected, sensitivities as a Pro user may have stored them.
Deflected ==
    [Centred EXCEPT !.leftX = 200, !.rightY = 900,
                    !.throttleSensitifity = 80, !.steerSensitifity = 50]

\* Packets polled in Spec: valid ones in every mode with and without brake, and
\* packets out of range in one field.
RxPackets ==
    {[b EXCEPT !.mode = m, !.brake = k] : b \in {Centred, Deflected}, m \in idle..debug, k \in {0, 1}}
    \cup {[Centred EXCEPT !.mode = notConnected],
          [Centred EXCEPT !.leftX = 1024],
          [Deflected EXCEPT !.steerSensitifity = 101]}

\* Sample values of each field, inside and outside its range, for SpecValidate.
FieldSamples(f) ==
    IF f \in AnalogFields THEN {-2, -1, 0, 1023, 1024}
    ELSE IF f = "mode" THEN {-1, 0, 1, 2, 3, 4}
    ELSE IF f \in SensFields THEN {-2, -1, 100, 101}
    ELSE {0, 1, 2}

\* Packets polled in SpecValidate: the centred packet with one field replaced by
\* each of its samples, the packet of sentinels, the packet of maxima, and
\* packets with two fields out of range.
Sentinels == [dataPackage EXCEPT !.mode = idle]
Maxima ==
    [f \in Fields |-> IF f \in AnalogFields THEN 1023
                      ELSE IF f = "mode" THEN debug
                      ELSE IF f \in SensFields THEN 100 ELSE 1]
WireOneField ==
    {[Centred EXCEPT ![f] = v] : f \in Fields, v \in {-2, -1, 0, 1, 2, 3, 4, 100, 101, 1023, 1024}}
WirePackets ==
    {p \in WireOneField : \A f \in Fields : p[f] \in FieldSamples(f) \cup {Centred[f]}}
    \cup {Sentinels, Maxima,
          [Centred EXCEPT !.rightX = 1024, !.mode = notConnected],
          [Centred EXCEPT !.tailLight = 2, !.throttleSensitifity = -2]}

\* Packets polled in SpecMap, all valid, in the two modes that drive the
\* actuators: every raw value with sensitivity 0, the centre with every
\* sensitivity, and the ends and two deflections with sensitivities of each axis
\* chosen apart.
MapPackets ==
    {[Centred EXCEPT !.mode = m, !.leftX = r, !.rightY = r,
                     !.steerSensitifity = 0, !.throttleSensitifity = 0] :
        r \in 0..1023, m \in {easy, pro}}
    \cup {[Centred EXCEPT !.mode = m, !.steerSensitifity = k, !.throttleSensitifity = k] :
            k \in 0..100, m \in {easy, pro}}
    \cup {[Centred EXCEPT !.mode = m, !.leftX = lx, !.rightY = ry,
                          !.steerSensitifity = ss, !.throttleSensitifity = ts] :
            lx \in {0, 200, 512, 1023}, ry \in {0, 512, 900, 1023},
            ss \in {0, 50, 100}, ts \in {0, 80, 100}, m \in {easy, pro}}

\* Packets polled in SpecRange, in the given modes: every pair of an accepted raw value and an
\* accepted sensitivity, the -1 sentinels included, on the steering axis, and the
\* mirrored pair (1022 - raw, 99 - sensitivity), which runs through the same
\* values, on the throttle axis.
RangePackets(modes) ==
    {[Centred EXCEPT !.mode = m, !.leftX = r, !.rightY = 1022 - r,
                     !.steerSensitifity = k, !.throttleSensitifity = 99 - k] :
        r \in -1..1023, k \in -1..100, m \in modes}

(***************************************************************************)
(* Arithmetic of the target                                                *)
(***************************************************************************)
\* C integer division truncates towards zero.
TruncDiv(a, b) == IF a >= 0 THEN a \div b ELSE -((-a) \div b)

\* map() dividing by the number of input values instead of the input span.
map_inclusive(x, in_min, in_max, out_min, out_max) ==
    TruncDiv((x - in_min) * (out_max - out_min), in_max - in_min + 1) + out_min

\* map() with the quotient rounded down instead of towards zero.
map_floored(x, in_min, in_max, out_min, out_max) ==
    (((x - in_min) * (out_max - out_min)) \div (in_max - in_min)) + out_min

\* Arduino map(): long arithmetic, (x - in_min) * (out_max - out_min) / (in_max - in_min) + out_min
map(x, in_min, in_max, out_min, out_max) ==
    TruncDiv((x - in_min) * (out_max - out_min), in_max - in_min) + out_min

\* Conversion to the 16-bit unsigned int of the AVR.
ToUnsignedInt(v) == v % 65536

\* unsigned int max = middlepoint + (float)middlepoint / 100 * sensitivity;
\* unsigned int min = middlepoint - (float)middlepoint / 100 * sensitivity;
\* The float result is truncated to an integer.  For every sensitivity in -1..100
\* the single-precision value truncates to the same integer as the exact quotient
\* (the product 0.9f * s rounds to the exact integer when s is a multiple of 10).
\* The lower end of the range left at 0 whatever the sensitivity.
rangeMin_zero(sens) == 0

rangeMax(sens) == ToUnsignedInt((100 * middlepoint + middlepoint * sens) \div 100)
rangeMin(sens) == ToUnsignedInt((100 * middlepoint - middlepoint * sens) \div 100)

(***************************************************************************)
(* Receiver functions.  s is the receiver's state during a pass:           *)
(* the globals, the clock (millis) and the record of what the pass did.    *)
(***************************************************************************)
\* validateData with the -1 sentinel taken as out of range (lower limits 0).
validateData_noSentinel(check) ==
    /\ check.rightX \in 0..1023 /\ check.rightY \in 0..1023
    /\ check.leftX \in 0..1023 /\ check.leftY \in 0..1023
    /\ check.mode \in 0..3
    /\ check.throttleSensitifity \in 0..100 /\ check.steerSensitifity \in 0..100

\* bool validateData(dataPackage check) -- the boolean fields are not examined
validateData(check) ==
    IF check.rightX > 1023 \/ check.rightX < -1 THEN FALSE
    ELSE IF check.rightY > 1023 \/ check.rightY < -1 THEN FALSE
    ELSE IF check.leftX > 1023 \/ check.leftX < -1 THEN FALSE
    ELSE IF check.leftY > 1023 \/ check.leftY < -1 THEN FALSE
    ELSE IF check.mode > 3 \/ check.mode < 0 THEN FALSE
    ELSE IF check.throttleSensitifity > 100 \/ check.throttleSensitifity < -1 THEN FALSE
    ELSE IF check.steerSensitifity > 100 \/ check.steerSensitifity < -1 THEN FALSE
    ELSE TRUE

\* isConnected with the operands of the subtraction exchanged.
isConnected_swapped(s) ==
    IF s.lastReceive - s.millis > LinkTimeout
    THEN [s EXCEPT !.rxData.mode = notConnected]
    ELSE s

\* void isConnected()
isConnected(s) ==
    IF s.millis - s.lastReceive > LinkTimeout
    THEN [s EXCEPT !.rxData.mode = notConnected]
    ELSE s

\* receiveData reading the radio straight into rxData, validating afterwards.
receiveData_readIntoActive(s, radio) ==
    IF radio = << >> THEN s
    ELSE LET s1 == [s EXCEPT !.lastReceive = s.millis, !.rawData = radio[1], !.rxData = radio[1]] IN
         IF validateData(s1.rawData)
         THEN LET s2 == IF s.rxData.mode = notConnected
                        THEN [s1 EXCEPT !.cue = TRUE, !.millis = @ + CueDelay]
                        ELSE s1
              IN [s2 EXCEPT !.poll = "accepted", !.lastValid = s1.lastReceive]
         ELSE [s1 EXCEPT !.interferenceLED = HIGH, !.poll = "rejected"]

\* receiveData playing the cue for every accepted packet.
receiveData_cueAlways(s, radio) ==
    IF radio = << >> THEN s
    ELSE LET s1 == [s EXCEPT !.lastReceive = s.millis, !.rawData = radio[1]] IN
         IF validateData(s1.rawData)
         THEN [s1 EXCEPT !.cue = TRUE, !.millis = @ + CueDelay, !.rxData = s1.rawData,
                         !.poll = "accepted", !.lastValid = s1.lastReceive]
         ELSE [s1 EXCEPT !.interferenceLED = HIGH, !.poll = "rejected"]

\* receiveData that plays the cue but does not transfer the packet to rxData.
receiveData_noTransfer(s, radio) ==
    IF radio = << >> THEN s
    ELSE LET s1 == [s EXCEPT !.lastReceive = s.millis, !.rawData = radio[1]] IN
         IF validateData(s1.rawData)
         THEN LET s2 == IF s1.rxData.mode = notConnected
                        THEN [s1 EXCEPT !.cue = TRUE, !.millis = @ + CueDelay]
                        ELSE s1
              IN [s2 EXCEPT !.poll = "accepted", !.lastValid = s1.lastReceive]
         ELSE [s1 EXCEPT !.interferenceLED = HIGH, !.poll = "rejected"]

\* void receiveData(); radio is the receive FIFO: << >> or <<packet>>
receiveData(s, radio) ==
    IF radio = << >> THEN s
    ELSE LET s1 == [s EXCEPT !.lastReceive = s.millis, !.rawData = radio[1]] IN
         IF validateData(s1.rawData)
         THEN LET s2 == IF s1.rxData.mode = notConnected
                        THEN [s1 EXCEPT !.cue = TRUE, !.millis = @ + CueDelay]
                        ELSE s1
              IN [s2 EXCEPT !.rxData = s2.rawData, !.poll = "accepted",
                            !.lastValid = s1.lastReceive]
         ELSE [s1 EXCEPT !.interferenceLED = HIGH, !.poll = "rejected"]

\* void updateAccessoires() -- the part that drives the motor controller.
\* A bool holding a byte other than 0 and 1 is read as set.
updateAccessoires(s) ==
    IF s.rxData.brake # 0 THEN [s EXCEPT !.motorcontroller = 0] ELSE s

\* updatePwmDevices scaling both axes by the steering sensitivity.
updatePwmDevices_oneSensitivity(s) ==
    LET steerPosition == ToUnsignedInt(map(s.rxData.leftX, 0, 1023,
                                           rangeMin(s.rxData.steerSensitifity),
                                           rangeMax(s.rxData.steerSensitifity)))
        throttle == ToUnsignedInt(map(s.rxData.rightY, 0, 1023,
                                      rangeMin(s.rxData.steerSensitifity),
                                      rangeMax(s.rxData.steerSensitifity)))
    IN [s EXCEPT !.servo = steerPosition, !.motorcontroller = throttle]

\* void updatePwmDevices()
updatePwmDevices(s) ==
    LET steerPosition == ToUnsignedInt(map(s.rxData.leftX, 0, 1023,
                                           rangeMin(s.rxData.steerSensitifity),
                                           rangeMax(s.rxData.steerSensitifity)))
        throttle == ToUnsignedInt(map(s.rxData.rightY, 0, 1023,
                                      rangeMin(s.rxData.throttleSensitifity),
                                      rangeMax(s.rxData.throttleSensitifity)))
    IN [s EXCEPT !.servo = steerPosition, !.motorcontroller = throttle]

\* void waitForRemote()
waitForRemote(s, radio) ==
    receiveData([s EXCEPT !.motorcontroller = 90, !.servo = 90], radio)

\* void idleMode()
idleMode(s, radio) ==
    [updateAccessoires(isConnected(receiveData(s, radio))) EXCEPT !.motorcontroller = 90]

\* void easyMode()
easyMode(s, radio) ==
    updatePwmDevices(updateAccessoires(isConnected(receiveData(s, radio))))

\* void proMode()
proMode(s, radio) ==
    updatePwmDevices(updateAccessoires(isConnected(receiveData(s, radio))))

\* void debugMode()
debugMode(s, radio) ==
    isConnected(receiveData(s, radio))

(***************************************************************************)
(* Receiver: state after setup() and the passes of loop()                  *)
(***************************************************************************)
RxInit ==
    /\ rxData = dataPackage
    /\ rawData = dataPackage
    /\ lastReceive = 0
    /\ motorcontroller = 90      \* Servo::attach leaves the default (centre) pulse
    /\ servo = 90
    /\ interferenceLED = LOW
    /\ now = 0
    /\ pass = "boot"
    /\ poll = "none"
    /\ cue = FALSE
    /\ lastValid = 0

\* The state a pass starts from, d ms after the previous pass started.
Enter(d) ==
    [rxData |-> rxData, rawData |-> rawData, lastReceive |-> lastReceive,
     motorcontroller |-> motorcontroller, servo |-> servo,
     interferenceLED |-> interferenceLED, millis |-> now + d,
     poll |-> "none", cue |-> FALSE, lastValid |-> lastValid]

\* The globals as the pass of handler h leaves them.
Leave(s, h) ==
    /\ rxData' = s.rxData
    /\ rawData' = s.rawData
    /\ lastReceive' = s.lastReceive
    /\ motorcontroller' = s.motorcontroller
    /\ servo' = s.servo
    /\ interferenceLED' = s.interferenceLED
    /\ now' = s.millis
    /\ pass' = h
    /\ poll' = s.poll
    /\ cue' = s.cue
    /\ lastValid' = s.lastValid
    /\ UNCHANGED txvars

Fifo(P) == {<< >>} \cup {<<p>> : p \in P}
Elapse(D) == {d \in D : d = 0 \/ now + d <= MaxTime}

\* loop(): case notConnected
WaitForRemote(P, D) ==
    /\ rxData.mode = notConnected
    /\ \E d \in Elapse(D), radio \in Fifo(P) : Leave(waitForRemote(Enter(d), radio), "waitForRemote")

\* loop(): case idle
IdleMode(P, D) ==
    /\ rxData.mode = idle
    /\ \E d \in Elapse(D), radio \in Fifo(P) : Leave(idleMode(Enter(d), radio), "idleMode")

\* loop(): case easy
EasyMode(P, D) ==
    /\ rxData.mode = easy
    /\ \E d \in Elapse(D), radio \in Fifo(P) : Leave(easyMode(Enter(d), radio), "easyMode")

\* loop(): case pro
ProMode(P, D) ==
    /\ rxData.mode = pro
    /\ \E d \in Elapse(D), radio \in Fifo(P) : Leave(proMode(Enter(d), radio), "proMode")

\* loop(): case debug
DebugMode(P, D) ==
    /\ rxData.mode = debug
    /\ \E d \in Elapse(D), radio \in Fifo(P) : Leave(debugMode(Enter(d), radio), "debugMode")

(***************************************************************************)
(* Transmitter: inputs                                                     *)
(***************************************************************************)
Buttons == {"rightJoystickButton", "leftJoystickButton", "ackButton", "backButton",
            "auxButton1", "auxButton2"}
Axes == {"rightX", "rightY", "leftX", "leftY"}

joyStickLowTrigger == 400
joyStickHighTrigger == 600

\* The inputs during one loop iteration: the buttons held down and the reading
\* of each axis.  The buttons are wired with pull-ups: pressed reads LOW.
digitalRead(in, button) == IF button \in in.pressed THEN LOW ELSE HIGH
analogRead(in, axis) == in.analog[axis]

AllCentred == [a \in Axes |-> 512]
\* Inputs of SpecTx: nothing touched, one button held (acknowledge, back, the
\* headlight button or the brake button), or one stick pushed to an end.
TxInputs ==
    {[pressed |-> {}, analog |-> AllCentred]}
    \cup {[pressed |-> {b}, analog |-> AllCentred] :
            b \in {"ackButton", "backButton", "leftJoystickButton", "auxButton1"}}
    \cup {[pressed |-> {}, analog |-> [AllCentred EXCEPT !.rightY = v]] : v \in {0, 1023}}
    \cup {[pressed |-> {}, analog |-> [AllCentred EXCEPT !.leftY = 1023]]}

\* Time between the starts of two loop iterations of the transmitter.
TxTimeSteps == {0, 2000}
\* Contents of the two settings bytes at power-up (255: never written).
EepromSamples == {[a \in {0, 1} |-> 255], [a \in {0, 1} |-> IF a = 0 THEN 65 ELSE 40]}

ToInt8(b) == IF b > 127 THEN b - 256 ELSE b
ToByte(v) == v % 256

\* The transmitter's default-initialised dataPackage (mode = 0).
txDataPackage == [dataPackage EXCEPT !.mode = idle]

(***************************************************************************)
(* Transmitter functions.  t is the transmitter's state during an          *)
(* iteration, in the inputs of that iteration.                             *)
(***************************************************************************)
\* risingEdge that does not remember the level it read.
risingEdge_noMemory(t, in, button) ==
    IF button \notin Buttons THEN [t |-> t, edge |-> FALSE]
    ELSE LET buttonState == digitalRead(in, button) IN
         IF buttonState # t.lastButtonState[button]
         THEN [t |-> t, edge |-> (buttonState = LOW)]
         ELSE [t |-> t, edge |-> FALSE]

\* bool risingEdge(byte button): the new state and the value returned.
\* (The 2 ms debounce delay is part of the time an iteration takes.)
risingEdge(t, in, button) ==
    IF button \notin Buttons THEN [t |-> t, edge |-> FALSE]
    ELSE LET buttonState == digitalRead(in, button) IN
         IF buttonState # t.lastButtonState[button]
         THEN [t |-> [t EXCEPT !.lastButtonState[button] = buttonState],
               edge |-> (buttonState = LOW)]
         ELSE [t |-> t, edge |-> FALSE]

\* int readJoystick(byte joystick): the new state and the value returned.
readJoystick(t, in, joystick) ==
    IF joystick \notin Axes THEN [t |-> t, value |-> 512]
    ELSE LET v == analogRead(in, joystick)
             t1 == IF v < joyStickHighTrigger /\ v > joyStickLowTrigger
                   THEN [t EXCEPT !.joystickHomed[joystick] = TRUE]
                   ELSE t
         IN IF (v > joyStickHighTrigger \/ v < joyStickLowTrigger) /\ t1.joystickHomed[joystick]
            THEN [t |-> [t1 EXCEPT !.joystickHomed[joystick] = FALSE], value |-> v]
            ELSE [t |-> t1, value |-> 512]

\* sendData limiting the rate in Idle only.
sendData_debugUnthrottled(t, in, mode) ==
    LET sendDelay == IF mode = idle THEN 2000 ELSE 0 IN
    IF t.millis - t.previousSend >= sendDelay
    THEN LET d == [t.txData EXCEPT
                     !.rightX = analogRead(in, "rightX"),
                     !.rightY = analogRead(in, "rightY"),
                     !.leftX = analogRead(in, "leftX"),
                     !.leftY = analogRead(in, "leftY"),
                     !.rightJoystickButton = 1 - digitalRead(in, "rightJoystickButton"),
                     !.leftJoystickButton = 1 - digitalRead(in, "leftJoystickButton"),
                     !.ackButton = 1 - digitalRead(in, "ackButton"),
                     !.backButton = 1 - digitalRead(in, "backButton"),
                     !.auxButton1 = 1 - digitalRead(in, "auxButton1"),
                     !.auxButton2 = 1 - digitalRead(in, "auxButton2")]
         IN [t EXCEPT !.previousSend = t.millis, !.txData = d, !.sent = Append(@, d)]
    ELSE t

\* void sendData(const byte mode)
sendData(t, in, mode) ==
    LET sendDelay == IF mode = idle \/ mode = debug THEN 2000 ELSE 0 IN
    IF t.millis - t.previousSend >= sendDelay
    THEN LET d == [t.txData EXCEPT
                     !.rightX = analogRead(in, "rightX"),
                     !.rightY = analogRead(in, "rightY"),
                     !.leftX = analogRead(in, "leftX"),
                     !.leftY = analogRead(in, "leftY"),
                     !.rightJoystickButton = 1 - digitalRead(in, "rightJoystickButton"),
                     !.leftJoystickButton = 1 - digitalRead(in, "leftJoystickButton"),
                     !.ackButton = 1 - digitalRead(in, "ackButton"),
                     !.backButton = 1 - digitalRead(in, "backButton"),
                     !.auxButton1 = 1 - digitalRead(in, "auxButton1"),
                     !.auxButton2 = 1 - digitalRead(in, "auxButton2")]
         IN [t EXCEPT !.previousSend = t.millis, !.txData = d, !.sent = Append(@, d)]
    ELSE t

\* void updateAccessoires() of the transmitter
txUpdateAccessoires(t, in) ==
    LET t1 == [t EXCEPT !.txData.honk =
                  IF digitalRead(in, "rightJoystickButton") = LOW THEN 1 ELSE 0]
        r2 == risingEdge(t1, in, "leftJoystickButton")
        t2 == IF r2.edge THEN [r2.t EXCEPT !.txData.headLight = 1 - @] ELSE r2.t
        r3 == risingEdge(t2, in, "auxButton2")
        t3 == IF r3.edge THEN [r3.t EXCEPT !.txData.tailLight = 1 - @] ELSE r3.t
    IN [t3 EXCEPT !.txData.brake = IF digitalRead(in, "auxButton1") = LOW THEN 1 ELSE 0]

\* drawMenu, up to its loop: txData.mode = idle
enterMenu(t) ==
    [t EXCEPT !.state = idle, !.screen = "menu", !.txData.mode = idle]

\* drawEasyScreen leaving the sensitivities as they are.
enterEasyScreen_keepSensitivities(t) ==
    [t EXCEPT !.state = easy, !.screen = "easy", !.txData.mode = easy]

\* drawEasyScreen, up to its loop
enterEasyScreen(t) ==
    [t EXCEPT !.state = easy, !.screen = "easy", !.txData.mode = easy,
              !.txData.throttleSensitifity = 40, !.txData.steerSensitifity = 50]

\* drawProScreen reading the two settings bytes the other way round.
enterProScreen_swapped(t) ==
    [t EXCEPT !.state = pro, !.screen = "pro", !.txData.mode = pro,
              !.txData.throttleSensitifity = ToInt8(t.EEPROM[1]),
              !.txData.steerSensitifity = ToInt8(t.EEPROM[0])]

\* drawProScreen, up to its loop
enterProScreen(t) ==
    [t EXCEPT !.state = pro, !.screen = "pro", !.txData.mode = pro,
              !.txData.throttleSensitifity = ToInt8(t.EEPROM[0]),
              !.txData.steerSensitifity = ToInt8(t.EEPROM[1])]

\* drawDebugScreen, up to its loop
enterDebugScreen(t) ==
    [t EXCEPT !.state = debug, !.screen = "debug", !.txData.mode = debug]

\* drawEditProSettings announcing "not connected" (4) while the settings are edited.
enterEditProSettings_notConnected(t) ==
    [t EXCEPT !.screen = "edit", !.txData.mode = notConnected, !.scrollCooldown = 0,
              !.valueHighlighted = FALSE, !.page = 0,
              !.buffer = ToByte(t.txData.throttleSensitifity)]

\* drawEditProSettings, up to its loop
enterEditProSettings(t) ==
    [t EXCEPT !.screen = "edit", !.txData.mode = idle, !.scrollCooldown = 0,
              !.valueHighlighted = FALSE, !.page = 0,
              !.buffer = ToByte(t.txData.throttleSensitifity)]

\* Leaving the editor straight to the menu.
leaveEditProSettings_toMenu(t) ==
    [t EXCEPT !.state = idle, !.screen = "menu", !.txData.mode = idle,
              !.scrollCooldown = 0, !.valueHighlighted = FALSE, !.page = 0, !.buffer = 0]

\* The locals of drawEditProSettings are dead outside it.
leaveEditProSettings(t) ==
    [t EXCEPT !.screen = "pro", !.scrollCooldown = 0, !.valueHighlighted = FALSE,
              !.page = 0, !.buffer = 0]

\* loop(): the screen function of the mode in *state
dispatch(t) ==
    IF t.state = idle THEN enterMenu(t)
    ELSE IF t.state = easy THEN enterEasyScreen(t)
    ELSE IF t.state = pro THEN enterProScreen(t)
    ELSE enterDebugScreen(t)

\* drawStartupScreen: one frame of the animation
drawStartupScreen(t, in) ==
    LET r == risingEdge(t, in, "ackButton") IN
    IF r.edge THEN dispatch([r.t EXCEPT !.y = 80])
    ELSE IF r.t.y + 2 < 80 THEN [r.t EXCEPT !.y = @ + 2]
    ELSE dispatch([r.t EXCEPT !.y = 80])

\* drawMenu: one iteration of its loop
drawMenu(t, in) ==
    LET yDistance == 15
        t1 == sendData(t, in, idle)
        rj == readJoystick(t1, in, "rightY")
        t2 == IF rj.value > joyStickHighTrigger /\ rj.t.menuOffset < 2 * yDistance
              THEN [rj.t EXCEPT !.menuOffset = @ + yDistance]
              ELSE IF rj.value < joyStickLowTrigger /\ rj.t.menuOffset > 1
              THEN [rj.t EXCEPT !.menuOffset = @ - yDistance]
              ELSE rj.t
        ra == risingEdge(t2, in, "ackButton")
    IN IF ra.edge
       THEN dispatch([ra.t EXCEPT !.state = IF ra.t.menuOffset = 0 THEN easy
                                           ELSE IF ra.t.menuOffset = yDistance THEN pro
                                           ELSE debug])
       ELSE ra.t

\* drawEasyScreen handing over to Pro when the back button is pressed.
drawEasyScreen_backToPro(t, in) ==
    LET rb == risingEdge(t, in, "backButton") IN
    IF rb.edge THEN dispatch([rb.t EXCEPT !.state = pro])
    ELSE sendData(txUpdateAccessoires(rb.t, in), in, easy)

\* drawEasyScreen sending before it samples the accessories.
drawEasyScreen_sendFirst(t, in) ==
    LET rb == risingEdge(t, in, "backButton") IN
    IF rb.edge THEN dispatch([rb.t EXCEPT !.state = idle])
    ELSE txUpdateAccessoires(sendData(rb.t, in, easy), in)

\* drawEasyScreen: one iteration of its loop
drawEasyScreen(t, in) ==
    LET rb == risingEdge(t, in, "backButton") IN
    IF rb.edge THEN dispatch([rb.t EXCEPT !.state = idle])
    ELSE sendData(txUpdateAccessoires(rb.t, in), in, easy)

\* drawProScreen: one iteration of its loop
drawProScreen(t, in) ==
    LET rb == risingEdge(t, in, "backButton") IN
    IF rb.edge THEN dispatch([rb.t EXCEPT !.state = idle])
    ELSE LET t1 == sendData(txUpdateAccessoires(rb.t, in), in, pro)
             ra == risingEdge(t1, in, "ackButton")
         IN IF ra.edge THEN enterEditProSettings(ra.t) ELSE ra.t

\* drawDebugScreen: one iteration of its loop (the page shown is display only)
drawDebugScreen(t, in) ==
    LET rb == risingEdge(t, in, "backButton") IN
    IF rb.edge THEN dispatch([rb.t EXCEPT !.state = idle])
    ELSE readJoystick(sendData(rb.t, in, debug), in, "leftX").t

\* The save writing the settings byte of the other page.
editCommit_otherSlot(t) ==
    LET saved == [t EXCEPT !.valueHighlighted = FALSE,
                           !.EEPROM[1 - t.page] = t.buffer,
                           !.committed[t.page] = t.buffer]
        live == IF saved.page = 0
                THEN [saved EXCEPT !.txData.throttleSensitifity = ToInt8(saved.buffer)]
                ELSE [saved EXCEPT !.txData.steerSensitifity = ToInt8(saved.buffer)]
    IN [live EXCEPT !.millis = @ + 500]

\* drawEditProSettings: acknowledge pressed while a value is highlighted (save)
editCommit(t) ==
    LET saved == [t EXCEPT !.valueHighlighted = FALSE,
                           !.EEPROM[t.page] = t.buffer,
                           !.committed[t.page] = t.buffer]
        live == IF saved.page = 0
                THEN [saved EXCEPT !.txData.throttleSensitifity = ToInt8(saved.buffer)]
                ELSE [saved EXCEPT !.txData.steerSensitifity = ToInt8(saved.buffer)]
    IN [live EXCEPT !.millis = @ + 500]     \* drawValueSet: delay(500)

\* The back button leaving the highlighted state with the buffer as adjusted.
editDiscard_keepBuffer(t) ==
    [t EXCEPT !.valueHighlighted = FALSE]

\* drawEditProSettings: back pressed while a value is highlighted
editDiscard(t) ==
    [t EXCEPT !.valueHighlighted = FALSE, !.buffer = t.EEPROM[t.page]]

\* drawEditProSettings: one iteration of its loop (the blinking is display only)
drawEditProSettings(t, in) ==
    LET t1 == sendData(t, in, debug)
        \* scrolling of the selected value
        t2 == IF t1.millis - t1.scrollCooldown >= 100
              THEN LET c == [t1 EXCEPT !.scrollCooldown = t1.millis] IN
                   IF c.valueHighlighted /\ analogRead(in, "rightY") > joyStickHighTrigger
                      /\ c.buffer > 5
                   THEN [c EXCEPT !.buffer = ToByte(@ - 5)]
                   ELSE IF c.valueHighlighted /\ analogRead(in, "rightY") < joyStickLowTrigger
                           /\ c.buffer < 100
                   THEN [c EXCEPT !.buffer = ToByte(@ + 5)]
                   ELSE c
              ELSE t1
        ra == risingEdge(t2, in, "ackButton")
        rb == risingEdge(ra.t, in, "backButton")
        \* switching of the page, after the buttons
        switch(u) ==
            LET rj == readJoystick(u, in, "leftY") IN
            IF (rj.value > joyStickHighTrigger \/ rj.value < joyStickLowTrigger)
               /\ ~rj.t.valueHighlighted
            THEN LET pg == 1 - rj.t.page IN
                 [rj.t EXCEPT !.page = pg,
                              !.buffer = IF pg = 0 THEN ToByte(rj.t.txData.throttleSensitifity)
                                         ELSE ToByte(rj.t.txData.steerSensitifity)]
            ELSE rj.t
    IN IF ra.edge
       THEN IF ~ra.t.valueHighlighted
            THEN switch([ra.t EXCEPT !.valueHighlighted = TRUE])
            ELSE switch(editCommit(ra.t))
       ELSE IF rb.edge
       THEN IF ~rb.t.valueHighlighted
            THEN leaveEditProSettings([rb.t EXCEPT !.txData.mode = pro])
            ELSE switch(editDiscard(rb.t))
       ELSE switch(rb.t)

(***************************************************************************)
(* Transmitter: state after setup() has reached drawStartupScreen, and     *)
(* the iterations of the screens' loops                                    *)
(***************************************************************************)
TxBoot(eeprom) ==
    /\ state = idle
    /\ screen = "startup"
    /\ y = -50
    /\ txData = txDataPackage
    /\ previousSend = 0
    /\ txnow = 0
    /\ menuOffset = 0
    /\ lastButtonState = [b \in Buttons |-> HIGH]
    /\ joystickHomed = [a \in Axes |-> TRUE]
    /\ EEPROM = eeprom
    /\ valueHighlighted = FALSE
    /\ page = 0
    /\ buffer = 0
    /\ scrollCooldown = 0
    /\ sent = << >>
    /\ committed = [p \in {0, 1} |-> -1]
    /\ restarts = 0
    /\ joyLog = << >>
    /\ edgeLog = << >>

TxInit == \E eeprom \in EepromSamples : TxBoot(eeprom)

\* The state an iteration starts from, d ms after the previous one started.
TxEnter(d) ==
    [state |-> state, screen |-> screen, y |-> y, txData |-> txData,
     previousSend |-> previousSend, millis |-> txnow + d, menuOffset |-> menuOffset,
     lastButtonState |-> lastButtonState, joystickHomed |-> joystickHomed,
     EEPROM |-> EEPROM, valueHighlighted |-> valueHighlighted, page |-> page,
     buffer |-> buffer, scrollCooldown |-> scrollCooldown, sent |-> << >>,
     committed |-> committed, restarts |-> restarts, joyLog |-> joyLog,
     edgeLog |-> edgeLog]

TxLeave(t) ==
    /\ t.millis = txnow \/ t.millis <= TxMaxTime     \* the clock is capped
    /\ state' = t.state
    /\ screen' = t.screen
    /\ y' = t.y
    /\ txData' = t.txData
    /\ previousSend' = t.previousSend
    /\ txnow' = t.millis
    /\ menuOffset' = t.menuOffset
    /\ lastButtonState' = t.lastButtonState
    /\ joystickHomed' = t.joystickHomed
    /\ EEPROM' = t.EEPROM
    /\ valueHighlighted' = t.valueHighlighted
    /\ page' = t.page
    /\ buffer' = t.buffer
    /\ scrollCooldown' = t.scrollCooldown
    /\ sent' = t.sent
    /\ committed' = t.committed
    /\ restarts' = t.restarts
    /\ joyLog' = t.joyLog
    /\ edgeLog' = t.edgeLog
    /\ UNCHANGED rxvars

TxElapse(D) == {d \in D : d = 0 \/ txnow + d <= TxMaxTime}

StartupScreen(I, D) ==
    /\ screen = "startup"
    /\ \E d \in TxElapse(D), in \in I : TxLeave(drawStartupScreen(TxEnter(d), in))

Menu(I, D) ==
    /\ screen = "menu"
    /\ \E d \in TxElapse(D), in \in I : TxLeave(drawMenu(TxEnter(d), in))

EasyScreen(I, D) ==
    /\ screen = "easy"
    /\ \E d \in TxElapse(D), in \in I : TxLeave(drawEasyScreen(TxEnter(d), in))

ProScreen(I, D) ==
    /\ screen = "pro"
    /\ \E d \in TxElapse(D), in \in I : TxLeave(drawProScreen(TxEnter(d), in))

DebugScreen(I, D) ==
    /\ screen = "debug"
    /\ \E d \in TxElapse(D), in \in I : TxLeave(drawDebugScreen(TxEnter(d), in))

EditProSettings(I, D) ==
    /\ screen = "edit"
    /\ \E d \in TxElapse(D), in \in I : TxLeave(drawEditProSettings(TxEnter(d), in))

\* Power cycle: the globals are initialised again and setup() runs; the settings
\* bytes keep their contents.
Restart ==
    /\ restarts < MaxRestarts
    /\ TxLeave([TxEnter(0) EXCEPT
                  !.state = idle, !.screen = "startup", !.y = -50,
                  !.txData = txDataPackage, !.previousSend = 0, !.millis = 0,
                  !.menuOffset = 0, !.lastButtonState = [b \in Buttons |-> HIGH],
                  !.joystickHomed = [a \in Axes |-> TRUE],
                  !.valueHighlighted = FALSE, !.page = 0, !.buffer = 0,
                  !.scrollCooldown = 0, !.restarts = @ + 1])

\* One call of readJoystick on axis a while the axis reads v.
ReadJoystick(A, V) ==
    /\ Len(joyLog) < MaxCalls
    /\ \E a \in A, v \in V :
          LET in == [pressed |-> {}, analog |-> [AllCentred EXCEPT ![a] = v]]
              r == readJoystick(TxEnter(0), in, a)
          IN TxLeave([r.t EXCEPT !.joyLog =
                         Append(@, [axis |-> a, sample |-> v, value |-> r.value])])

\* One call of risingEdge on button b while the pin reads level.
RisingEdge(B, L) ==
    /\ Len(edgeLog) < MaxCalls
    /\ \E b \in B, level \in L :
          LET in == [pressed |-> IF level = LOW THEN {b} ELSE {}, analog |-> AllCentred]
              r == risingEdge(TxEnter(0), in, b)
          IN TxLeave([r.t EXCEPT !.edgeLog =
                         Append(@, [button |-> b, level |-> level, edge |-> r.edge])])

NextTx ==
    \/ StartupScreen(TxInputs, TxTimeSteps)
    \/ Menu(TxInputs, TxTimeSteps)
    \/ EasyScreen(TxInputs, TxTimeSteps)
    \/ ProScreen(TxInputs, TxTimeSteps)
    \/ DebugScreen(TxInputs, TxTimeSteps)
    \/ EditProSettings(TxInputs, TxTimeSteps)

\* The transmitter alone, the receiver as setup() left it.
InitTx == RxInit /\ TxInit
SpecTx == InitTx /\ [][NextTx]_vars

\* Both nodes after setup(), the settings bytes never written.
Init == RxInit /\ TxBoot([a \in {0, 1} |-> 255])

\* Inputs of SpecRestart: nothing touched, acknowledge held, or one stick at an end.
RestartInputs ==
    {[pressed |-> {}, analog |-> AllCentred],
     [pressed |-> {"ackButton"}, analog |-> AllCentred],
     [pressed |-> {}, analog |-> [AllCentred EXCEPT !.rightY = 0]],
     [pressed |-> {}, analog |-> [AllCentred EXCEPT !.rightY = 1023]],
     [pressed |-> {}, analog |-> [AllCentred EXCEPT !.leftY = 1023]]}
\* Contents of the settings bytes at the first power-up of SpecRestart.
RestartEeprom ==
    {[a \in {0, 1} |-> IF a = 0 THEN v ELSE 40] : v \in {0, 5, 7, 65, 70, 100, 255}}
    \cup {[a \in {0, 1} |-> IF a = 0 THEN 65 ELSE v] : v \in {5, 50, 99, 100}}

InitRestart == RxInit /\ \E eeprom \in RestartEeprom : TxBoot(eeprom)

NextRestart ==
    \/ StartupScreen(RestartInputs, {0})
    \/ Menu(RestartInputs, {0})
    \/ EasyScreen(RestartInputs, {0})
    \/ ProScreen(RestartInputs, {0})
    \/ DebugScreen(RestartInputs, {0})
    \/ EditProSettings(RestartInputs, {0})
    \/ Restart

\* The transmitter with power cycles, the clock advancing only in delay().
SpecRestart == InitRestart /\ [][NextRestart]_vars

\* Inputs of SpecEdit: those of SpecRestart and the back button held.
EditInputs ==
    RestartInputs \cup {[pressed |-> {"backButton"}, analog |-> AllCentred]}
\* Time between the starts of two iterations in SpecEdit.
EditTimeSteps == {0, 1000}
\* Contents of the settings bytes at power-up in SpecEdit: never written, a
\* multiple of 5, values next to the ends of the editor's range, a byte above 100.
EditEeprom ==
    {[a \in {0, 1} |-> IF a = 0 THEN v ELSE 40] : v \in {7, 65, 98, 200, 255}}

InitEdit == RxInit /\ \E eeprom \in EditEeprom : TxBoot(eeprom)

NextEdit ==
    \/ StartupScreen(EditInputs, EditTimeSteps)
    \/ Menu(EditInputs, EditTimeSteps)
    \/ EasyScreen(EditInputs, EditTimeSteps)
    \/ ProScreen(EditInputs, EditTimeSteps)
    \/ DebugScreen(EditInputs, EditTimeSteps)
    \/ EditProSettings(EditInputs, EditTimeSteps)

\* The transmitter on settings bytes of any content, the clock advancing far
\* enough between iterations for the editor's scroll window to open.
SpecEdit == InitEdit /\ [][NextEdit]_vars

\* Samples of an axis: below, inside, on the upper edge of, and above the deadband.
JoySamples == {300, 550, 600, 700}
NextJoystick == ReadJoystick({"rightY", "leftX"}, JoySamples)
\* readJoystick called on two axes with samples of JoySamples, in any order.
SpecJoystick == Init /\ [][NextJoystick]_vars

NextEdge == RisingEdge({"ackButton", "backButton"}, {LOW, HIGH})
\* risingEdge called on two buttons at either level, in any order.
SpecEdge == Init /\ [][NextEdge]_vars

Next ==
    \/ WaitForRemote(RxPackets, TimeSteps)
    \/ IdleMode(RxPackets, TimeSteps)
    \/ EasyMode(RxPackets, TimeSteps)
    \/ ProMode(RxPackets, TimeSteps)
    \/ DebugMode(RxPackets, TimeSteps)

\* The receiver under packets and pauses of every kind in RxPackets, TimeSteps.
Spec == Init /\ [][Next]_vars

NextValidate ==
    \/ WaitForRemote(WirePackets, {0})
    \/ IdleMode(WirePackets, {0})
    \/ EasyMode(WirePackets, {0})
    \/ ProMode(WirePackets, {0})
    \/ DebugMode(WirePackets, {0})

\* The receiver polling the wide packet set WirePackets, with the clock held.
SpecValidate == Init /\ [][NextValidate]_vars

NextMap ==
    \/ WaitForRemote(MapPackets, {0})
    \/ EasyMode({}, {0})
    \/ ProMode({}, {0})

\* The receiver connecting on a packet of MapPackets and driving the actuators
\* from it.
SpecMap == Init /\ [][NextMap]_vars

\* "As long as valid packets keep arriving": the loop keeps running and a pass in
\* NotConnected that finds a valid packet in the radio is not postponed forever.
ValidPacketPolled ==
    /\ rxData.mode = notConnected
    /\ \E p \in {q \in RxPackets : validateData(q)} :
          Leave(waitForRemote(Enter(0), <<p>>), "waitForRemote")

SpecLive == Init /\ [][Next]_vars /\ WF_vars(ValidPacketPolled)

(***************************************************************************)
(* Properties                                                              *)
(***************************************************************************)
Connected == {idle, easy, pro, debug}
ConnectedPass == {"idleMode", "easyMode", "proMode", "debugMode"}

\* The declared wire domain of each field (packet contract).
InDomain(f, v) ==
    IF f \in AnalogFields THEN v \in -1..1023
    ELSE IF f = "mode" THEN v \in {0, 1, 2, 3}
    ELSE IF f \in SensFields THEN v \in -1..100
    ELSE v \in {0, 1}
OutOfDomain(p) == {f \in Fields : ~InDomain(f, p[f])}

C2_OneFieldOutRejected ==
    (poll # "none" /\ Cardinality(OutOfDomain(rawData)) = 1) => poll = "rejected"

\* C3: a polled packet with every field inside its wire domain is accepted,
\* the -1 sentinels included.
C3_InDomainAccepted ==
    (poll # "none" /\ OutOfDomain(rawData) = {}) => poll = "accepted"

\* C3 witness: the packet made of sentinels was polled and accepted.
C3_Witness ==
    poll = "accepted" /\ rawData = Sentinels /\ rxData = Sentinels

\* C4: a pass that polls a rejected packet leaves every field of rxData as it
\* was; rxData is replaced only by an accepted packet and then equals it in every
\* field (the only other change is the link monitor's overwrite of the mode).
C4_RejectedLeavesActive ==
    [][/\ poll' = "rejected" => rxData' = rxData
       /\ rxData' # rxData =>
            \/ poll' = "accepted" /\ rxData' = rawData'
            \/ poll' # "accepted" /\ rxData' = [rxData EXCEPT !.mode = notConnected]]_vars

\* C4 witness: a rejected packet was polled while another packet is active.
C4_Witness ==
    /\ poll = "rejected" /\ pass = "easyMode" /\ rxData.mode = easy
    /\ rawData # rxData /\ rawData.leftX = 1024

\* C5 as stated: at the end of an Easy or Pro pass with brake set in the active
\* packet the drive command is 0.
C5_BrakeForcesMinimum ==
    (pass \in {"easyMode", "proMode"} /\ rxData.mode \in {easy, pro} /\ rxData.brake = 1)
        => motorcontroller = 0

\* C6 as stated: at the end of every pass that leaves the mode NotConnected both
\* actuator commands are 90, the pass that detects the timeout included.
C6_NotConnectedNeutral ==
    (pass # "boot" /\ rxData.mode = notConnected)
        => (motorcontroller = 90 /\ servo = 90)

\* C7: a pass plays the reconnection cue exactly when it takes the receiver from
\* NotConnected to a Connected mode, i.e. when it accepts a packet while
\* NotConnected; accepted packets in a Connected mode and rejected packets play
\* nothing.
C7_CueOncePerReconnect ==
    [][/\ cue' <=> (rxData.mode = notConnected /\ poll' = "accepted")
       /\ cue' <=> (rxData.mode = notConnected /\ rxData'.mode \in Connected)
       /\ poll' = "rejected" => ~cue']_vars

\* C7 witness: the cue played on a reconnection that follows a timeout.
C7_Witness ==
    /\ cue /\ pass = "waitForRemote" /\ rxData.mode = easy
    /\ lastValid > LinkTimeout

\* C8: a pass that starts in NotConnected and polls an accepted packet ends in
\* that packet's mode (a Connected mode); and while valid packets keep being
\* polled the receiver always leaves NotConnected again.
C8_SelfHealing ==
    /\ [][(rxData.mode = notConnected /\ poll' = "accepted")
            => (rxData'.mode = rawData'.mode /\ rxData'.mode \in Connected)]_vars
    /\ (rxData.mode = notConnected) ~> (rxData.mode \in Connected)

\* C8 witness: Easy restored by a valid packet after a timeout.
C8_Witness ==
    /\ pass = "waitForRemote" /\ poll = "accepted" /\ rxData.mode = easy
    /\ lastValid > LinkTimeout /\ rawData = rxData

\* C9: every packet the transmitter hands to the radio, from whichever screen,
\* carries a mode in {Idle, Easy, Pro, Debug}; NotConnected (4) is never sent.
C9_SentModeConnected ==
    \A i \in 1..Len(sent) : sent[i].mode \in {idle, easy, pro, debug} /\ sent[i].mode # notConnected

\* C9 witness: a packet sent from the settings editor, after packets were sent in Pro.
C9_Witness ==
    /\ screen = "edit" /\ sent # << >> /\ sent[1].mode = idle /\ state = pro
    /\ valueHighlighted

\* C10 as stated: once a packet passes validation the interference indicator is
\* off, also when a rejected packet had switched it on before.
C10_InterferenceCleared ==
    poll = "accepted" => interferenceLED = LOW

NextRange ==
    \/ WaitForRemote(RangePackets({easy, pro}), {0})
    \/ EasyMode({}, {0})
    \/ ProMode({}, {0})

\* The receiver connecting on a packet of RangePackets and driving the actuators
\* from it.
SpecRange == Init /\ [][NextRange]_vars

\* The pass drove the actuators from the active packet.
Mapped == pass \in {"easyMode", "proMode"} /\ rxData.mode \in {easy, pro}

\* C11: with sensitivity 0 the command is 90 for every raw value in 0..1023, on
\* the steering output and on the throttle output.
C11_ZeroSensitivityNeutral ==
    Mapped =>
        /\ (rxData.steerSensitifity = 0 /\ rxData.leftX \in 0..1023) => servo = 90
        /\ (rxData.throttleSensitifity = 0 /\ rxData.rightY \in 0..1023) => motorcontroller = 90

\* C11 witness: both sticks at opposite ends, both sensitivities 0.
C11_Witness ==
    /\ Mapped /\ rxData.steerSensitifity = 0 /\ rxData.throttleSensitifity = 0
    /\ rxData.leftX = 1023 /\ rxData.rightY = 0 /\ servo = 90 /\ motorcontroller = 90

\* C12 as stated: with raw = 512 the command is 90 for every sensitivity in
\* 0..100, the values that are not multiples of 10 included.
C12_CentreNeutral ==
    Mapped =>
        /\ (rxData.leftX = 512 /\ rxData.steerSensitifity \in 0..100) => servo = 90
        /\ (rxData.rightY = 512 /\ rxData.throttleSensitifity \in 0..100)
              => motorcontroller = 90

\* C13: with sensitivity 100 raw 0 gives 0 and raw 1023 gives 180.
C13_FullRange ==
    Mapped =>
        /\ rxData.steerSensitifity = 100 =>
              /\ rxData.leftX = 0 => servo = 0
              /\ rxData.leftX = 1023 => servo = 180
        /\ rxData.throttleSensitifity = 100 =>
              /\ rxData.rightY = 0 => motorcontroller = 0
              /\ rxData.rightY = 1023 => motorcontroller = 180

\* C13 witness: steering at raw 0 and throttle at raw 1023, sensitivities 100.
C13_Witness ==
    /\ Mapped /\ rxData.steerSensitifity = 100 /\ rxData.throttleSensitifity = 100
    /\ rxData.leftX = 0 /\ rxData.rightY = 1023 /\ servo = 0 /\ motorcontroller = 180

\* The remap of the packet contract: raw from [0,1023] onto
\* [90 - 90*sens/100, 90 + 90*sens/100], in integers (ends and result truncated).
LinearRemap(raw, sens) ==
    LET lo == 90 - ((90 * sens + 99) \div 100)
        hi == 90 + ((90 * sens) \div 100)
    IN lo + ((raw * (hi - lo)) \div 1023)

\* C14: in Easy and Pro without brake the steering command is the remap of leftX
\* under steerSensitifity and the throttle command the remap of rightY under
\* throttleSensitifity, each axis under its own sensitivity only.
C14_AxesRemapped ==
    (Mapped /\ rxData.brake = 0) =>
        /\ servo = LinearRemap(rxData.leftX, rxData.steerSensitifity)
        /\ motorcontroller = LinearRemap(rxData.rightY, rxData.throttleSensitifity)

\* C14 witness: leftX 200 under 50 (onto 45..135) and rightY 900 under 80 (onto
\* 18..162) in Pro.
C14_Witness ==
    /\ pass = "proMode" /\ rxData.mode = pro /\ rxData.brake = 0
    /\ rxData.leftX = 200 /\ rxData.steerSensitifity = 50 /\ servo = 62
    /\ rxData.rightY = 900 /\ rxData.throttleSensitifity = 80 /\ motorcontroller = 144

\* The deadband of an axis as the contract declares it: [400,600], ends included.
InDeadband(v) == v \in joyStickLowTrigger..joyStickHighTrigger
\* The calls before call i that read the same axis, the same button.
JoyBefore(i) == {j \in 1..(i - 1) : joyLog[j].axis = joyLog[i].axis}
EdgeBefore(i) == {j \in 1..(i - 1) : edgeLog[j].button = edgeLog[i].button}
Last(S) == CHOOSE j \in S : \A k \in S : k <= j

\* C15 as stated: a call returns the reading exactly when its sample is outside
\* the deadband and the previous sample of the same axis was inside it (or there
\* was none); every other call returns 512.  Samples of other axes play no part.
C15_OneEventPerDeflection ==
    \A i \in 1..Len(joyLog) :
        joyLog[i].value =
            IF /\ ~InDeadband(joyLog[i].sample)
               /\ (JoyBefore(i) = {} \/ InDeadband(joyLog[Last(JoyBefore(i))].sample))
            THEN joyLog[i].sample
            ELSE 512

\* C16: a call returns true exactly when the pin reads pressed (LOW) and the
\* previous call for the same button read released (or there was none); calls
\* for other buttons play no part.
C16_EdgeOncePerPress ==
    \A i \in 1..Len(edgeLog) :
        edgeLog[i].edge <=>
            /\ edgeLog[i].level = LOW
            /\ (EdgeBefore(i) = {} \/ edgeLog[Last(EdgeBefore(i))].level = HIGH)

\* C16 witness: released, pressed, pressed, released, pressed on one button gives
\* true at the second and the fifth call only.
C16_Witness ==
    /\ Len(edgeLog) = 5
    /\ \A i \in 1..5 : edgeLog[i].button = "ackButton"
    /\ [i \in 1..5 |-> edgeLog[i].level] = <<HIGH, LOW, LOW, HIGH, LOW>>
    /\ [i \in 1..5 |-> edgeLog[i].edge] = <<FALSE, TRUE, FALSE, FALSE, TRUE>>

\* The iteration registered a press of the button (risingEdge returned true).
AckEdge == lastButtonState["ackButton"] = HIGH /\ lastButtonState'["ackButton"] = LOW
BackEdge == lastButtonState["backButton"] = HIGH /\ lastButtonState'["backButton"] = LOW
\* The item of the menu the cursor points at (Easy, Pro, Debug drawn 15 apart).
Highlighted(offset) == <<easy, pro, debug>>[(offset \div 15) + 1]

\* C17: the mode starts as Idle; it changes only from Idle to the item under the
\* cursor when a press of acknowledge is registered, and from Easy, Pro or Debug
\* to Idle when a press of back is registered; the cursor is always on one of
\* the three items.
C17_ModeTransitions ==
    /\ state = idle
    /\ [][/\ menuOffset' \in {0, 15, 30}
          /\ state' \in {idle, easy, pro, debug}
          /\ state' # state =>
                \/ state = idle /\ AckEdge /\ state' = Highlighted(menuOffset')
                \/ state \in {easy, pro, debug} /\ BackEdge /\ state' = idle]_vars

\* C17 witness: Debug entered with the cursor on the third item.
C17_Witness ==
    state = debug /\ screen = "debug" /\ menuOffset = 30 /\ txData.mode = debug

\* C18: an iteration of the menu or of the Debug screen sends only when 2000 ms
\* or more have passed since the previous send, in whichever mode that was; an
\* iteration of the Easy screen that calls sendData sends.
C18_SendCadence ==
    [][/\ (screen \in {"menu", "debug"} /\ sent' # << >>)
             => previousSend' - previousSend >= 2000
       /\ (screen = "easy" /\ screen' = "easy")
             => (Len(sent') = 1 /\ previousSend' = txnow')]_vars

\* C18 witness: a packet sent from the menu 2000 ms after the last one sent in
\* Easy or Pro (the headlight was switched on there).
C18_Witness ==
    /\ screen = "menu" /\ sent # << >> /\ previousSend >= 2000
    /\ txData.headLight = 1 /\ txData.mode = idle

\* The live sensitivity the page of the editor stands for (0: throttle, 1: steering).
Live(d, p) == IF p = 0 THEN d.throttleSensitifity ELSE d.steerSensitifity

\* C19: after a power cycle, in Pro, the live sensitivity of a page is the value
\* last saved on that page (any value in 5..100), and the Pro packets carry it.
C19_CommitSurvivesRestart ==
    (restarts > 0 /\ screen = "pro") =>
        \A p \in {0, 1} : committed[p] \in 5..100 =>
            /\ Live(txData, p) = committed[p]
            /\ \A i \in 1..Len(sent) :
                  sent[i].mode = pro => Live(sent[i], p) = committed[p]

\* C19 witness: 65 saved on the throttle page, another value on the steering
\* page, the transmitter restarted and sending in Pro.
C19_Witness ==
    /\ restarts = 1 /\ screen = "pro" /\ sent # << >> /\ sent[1].mode = pro
    /\ committed[0] = 65 /\ sent[1].throttleSensitifity = 65
    /\ committed[1] \in 5..100 /\ committed[1] # 65
    /\ sent[1].steerSensitifity = committed[1]

\* The packet carries honk and brake as the buttons stood when it was sent.
LevelsSampled(d) == d.brake = d.auxButton1 /\ d.honk = d.rightJoystickButton

C21_NoMemory ==
    \A i \in 1..Len(sent) :
        /\ sent[i].auxButton1 = 0 => sent[i].brake = 0
        /\ sent[i].rightJoystickButton = 0 => sent[i].honk = 0

\* C22 as stated: at the end of every pass of idleMode that leaves the mode Idle
\* both actuator commands are 90.
C22_IdleNeutral ==
    (pass = "idleMode" /\ rxData.mode = idle) => (motorcontroller = 90 /\ servo = 90)

\* C23 as stated: in Pro the steering sensitivity is the byte of slot 0 and the
\* throttle sensitivity the byte of slot 1.
C23_SteeringSlot0 ==
    screen = "pro" =>
        /\ txData.steerSensitifity = ToInt8(EEPROM[0])
        /\ txData.throttleSensitifity = ToInt8(EEPROM[1])

\* An iteration of the editor that saved the highlighted value.
SaveStep == screen = "edit" /\ valueHighlighted /\ AckEdge

\* C23 amended: slot 0 holds the throttle sensitivity and slot 1 the steering
\* sensitivity: in Pro and in the editor the live throttle is the byte of slot 0
\* and the live steering the byte of slot 1, and a save on the throttle page
\* (page 0) writes slot 0 and the live throttle only, a save on the steering page
\* (page 1) slot 1 and the live steering only.
C23_ThrottleSlot0 ==
    /\ [](screen \in {"pro", "edit"} =>
            /\ txData.throttleSensitifity = ToInt8(EEPROM[0])
            /\ txData.steerSensitifity = ToInt8(EEPROM[1]))
    /\ [][SaveStep =>
            /\ EEPROM'[page] = committed'[page]
            /\ EEPROM'[1 - page] = EEPROM[1 - page]
            /\ Live(txData', page) = ToInt8(EEPROM'[page])
            /\ Live(txData', 1 - page) = Live(txData, 1 - page)]_vars

\* C23 witness: back in Pro after a save on the steering page that changed
\* slot 1 and left slot 0 alone.
C23_Witness ==
    /\ screen = "pro" /\ committed[1] # -1 /\ committed[0] = -1
    /\ EEPROM[1] = committed[1] /\ EEPROM[0] # EEPROM[1]
    /\ txData.steerSensitifity = ToInt8(EEPROM[1])
    /\ txData.throttleSensitifity = ToInt8(EEPROM[0])

\* C24 as stated: while a value is highlighted an adjustment of a buffer in
\* 0..100 moves it by exactly 5 and leaves it in 5..100, multiples of 5 or not.
C24_BufferClamped ==
    [][(screen = "edit" /\ valueHighlighted /\ valueHighlighted' /\ screen' = "edit"
          /\ buffer \in 0..100 /\ buffer' # buffer)
        => /\ buffer' \in {buffer - 5, buffer + 5}
           /\ buffer' \in 5..100]_vars

\* C25: a press of back registered while a value is highlighted leaves the
\* editor browsing, both settings bytes and both live sensitivities as they were,
\* nothing saved, and the buffer equal to the stored byte of the page shown.
C25_BackDiscards ==
    [][(screen = "edit" /\ valueHighlighted /\ BackEdge) =>
          /\ screen' = "edit" /\ ~valueHighlighted'
          /\ EEPROM' = EEPROM /\ committed' = committed
          /\ txData'.throttleSensitifity = txData.throttleSensitifity
          /\ txData'.steerSensitifity = txData.steerSensitifity
          /\ buffer' = EEPROM'[page']]_vars

\* C25 witness: browsing again after back was pressed, the scroll window having
\* been open while the clock stood at 2000, nothing saved.
C25_Witness ==
    /\ screen = "edit" /\ ~valueHighlighted /\ lastButtonState["backButton"] = LOW
    /\ scrollCooldown = 2000 /\ buffer = EEPROM[page] /\ buffer = 65
    /\ committed = [p \in {0, 1} |-> -1]

\* C26: a press of back registered while the editor is browsing ends in the Pro
\* screen with state Pro and the outgoing mode Pro; and an iteration of the Pro
\* screen that starts with that press still remembered (the button held or not
\* yet seen released) does not leave Pro.
C26_BackLeavesEditorOnly ==
    [][/\ (screen = "edit" /\ ~valueHighlighted /\ BackEdge) =>
              /\ screen' = "pro" /\ state' = pro /\ txData'.mode = pro
              /\ lastButtonState'["backButton"] = LOW
       /\ (screen = "pro" /\ lastButtonState["backButton"] = LOW) =>
              (state' = pro /\ screen' \in {"pro", "edit"})]_vars

\* C26 witness: a Pro packet sent with back still held after the editor was
\* left (a value was saved there).
C26_Witness ==
    /\ screen = "pro" /\ state = pro /\ sent # << >> /\ sent[1].mode = pro
    /\ sent[1].backButton = 1 /\ lastButtonState["backButton"] = LOW
    /\ committed[0] # -1

\* C27 as stated: a sample inside [400,600], ends included, returns 512 and
\* leaves the axis homed, so that the next sample of that axis outside the
\* deadband returns the reading.
C27_BoundaryHomes ==
    /\ \A i \in 1..Len(joyLog) :
          /\ InDeadband(joyLog[i].sample) => joyLog[i].value = 512
          /\ (/\ ~InDeadband(joyLog[i].sample) /\ JoyBefore(i) # {}
              /\ InDeadband(joyLog[Last(JoyBefore(i))].sample))
                => joyLog[i].value = joyLog[i].sample
    /\ \A i \in 1..Len(joyLog) :
          (InDeadband(joyLog[i].sample)
             /\ \A j \in (i + 1)..Len(joyLog) : joyLog[j].axis # joyLog[i].axis)
                => joystickHomed[joyLog[i].axis]

\* C28: every packet sent with mode Easy carries throttleSensitifity 40 and
\* steerSensitifity 50, whatever the settings bytes hold and whatever was saved.
C28_EasyFixedSensitivities ==
    \A i \in 1..Len(sent) : sent[i].mode = easy =>
        (sent[i].throttleSensitifity = 40 /\ sent[i].steerSensitifity = 50)

\* C28 witness: an Easy packet sent after another throttle value was saved in
\* the editor.
C28_Witness ==
    /\ screen = "easy" /\ sent # << >> /\ sent[1].mode = easy
    /\ committed[0] \notin {-1, 40} /\ EEPROM[0] = committed[0]
    /\ sent[1].throttleSensitifity = 40 /\ sent[1].steerSensitifity = 50

\* C29 as stated: every packet sent has every field inside its wire domain and
\* is accepted by the receiver's validateData.
C29_SentPacketsValid ==
    \A i \in 1..Len(sent) : OutOfDomain(sent[i]) = {} /\ validateData(sent[i])

\* C30 as stated, on the receiver: a pass that accepts a packet with mode Idle
\* (as the editor sends them) does not drive the motor from it.
C30_IdlePacketNotMapped ==
    (poll = "accepted" /\ rxData.mode = idle /\ rxData = rawData) => motorcontroller = 90

\* C31: after a pass that drove the actuators from an active packet that
\* validateData accepts (raw values in -1..1023, sensitivities in -1..100), the
\* steering command and the throttle command lie in 0..180.
C31_CommandsInRange ==
    (Mapped /\ validateData(rxData)) => (servo \in 0..180 /\ motorcontroller \in 0..180)

\* C31 witness: the steering axis at the sentinel -1 under full sensitivity
\* (command 0) and the throttle axis at 1023 under the sentinel sensitivity -1
\* (inverted range 90..89, command 89).
C31_Witness ==
    /\ Mapped /\ validateData(rxData)
    /\ rxData.leftX = -1 /\ rxData.steerSensitifity = 100 /\ servo = 0
    /\ rxData.rightY = 1023 /\ rxData.throttleSensitifity = -1 /\ motorcontroller = 89

====
